---- MODULE Spec2Model ----
(***************************************************************************)
(* One Codespace: the background service worker (src/background.js).       *)
(* Listeners of the service worker are async functions: every await is a  *)
(* point where another listener invocation may run.  Each invocation is a  *)
(* task p with a program counter pc[p]; one action is one stretch of code  *)
(* between two awaits.                                                     *)
(***************************************************************************)
EXTENDS Integers, Sequences, FiniteSets, TLC

\* ------------------------------------------------------------- bounds
NumTasks == 2      \* listener invocations that may be in flight together
MaxPasses == 2     \* listener invocations in one behaviour
MaxTicks == 1      \* advances of the wall clock
TickMs == 2100000  \* one advance of the wall clock: 35 minutes, in ms

\* ------------------------------------------------------------- constants
MAX_RETRY_ATTEMPTS == 3
RETRY_DELAY_MS == 1000
MsPerMinute == 60000
StartMs == 1       \* Date.now() at the first state (an offset of the epoch)

Tasks == 1..NumTasks
Ids == {"a", "b"}              \* the codespaces of the account
PolicyIds == {"a", "b", "c"}    \* a larger account, for single passes

\* cs.repository.full_name of each codespace, as a sequence of characters
repository == ("a" :> <<"x">>) @@ ("b" :> <<"x", "y">>) @@ ("c" :> <<"y", "z">>)

\* settings.excludedRepos values a user may have saved
ExcludedChoices == { <<>>, << <<"x">> >>, << <<"y">> >> }

DEFAULT_SETTINGS ==
  [githubToken |-> "", autoStopEnabled |-> TRUE, maxCodespaces |-> 1,
   autoStopMinutes |-> 30, excludedRepos |-> <<>>]

\* settings objects the options page may have stored (saveSettingsHandler)
SettingsChoices ==
  [githubToken : {"", "tok"}, autoStopEnabled : BOOLEAN, maxCodespaces : {1, 2},
   autoStopMinutes : {0, 30}, excludedRepos : ExcludedChoices]

\* ------------------------------------------------------------- pure functions

\* String.prototype.includes on character sequences
Includes(s, t) ==
  \E i \in 0..(Len(s) - Len(t)) : SubSeq(s, i + 1, i + Len(t)) = t

\* a filter that compares whole names only
IsExcluded_ExactOnly(repoFullName, excludedRepos) ==
  \E i \in 1..Len(excludedRepos) : repoFullName = excludedRepos[i]

IsExcluded(repoFullName, excludedRepos) ==
  \E i \in 1..Len(excludedRepos) :
    repoFullName = excludedRepos[i] \/ Includes(repoFullName, excludedRepos[i])

RECURSIVE FilterSeq(_, _)
FilterSeq(codespaces, excludedRepos) ==
  IF codespaces = <<>> THEN <<>>
  ELSE LET rest == FilterSeq(Tail(codespaces), excludedRepos)
       IN IF IsExcluded(repository[Head(codespaces)], excludedRepos)
          THEN rest ELSE <<Head(codespaces)>> \o rest

filterCodespacesByRepo(codespaces, excludedRepos) ==
  IF Len(excludedRepos) = 0 THEN codespaces
  ELSE FilterSeq(codespaces, excludedRepos)

\* a read that takes an absent key for the start of the epoch
getCodespaceLastAccess_Epoch(store, codespaceName, dateNow) == store[codespaceName]

\* result[key] || Date.now(): an absent key (0 here) reads as the current time
getCodespaceLastAccess(store, codespaceName, dateNow) ==
  IF store[codespaceName] # 0 THEN store[codespaceName] ELSE dateNow

\* getSettings: the stored settings, or DEFAULT_SETTINGS from the catch block
getSettings(got, stored) == IF got THEN stored ELSE DEFAULT_SETTINGS

\* a read that takes a failed read for the start of the epoch
ReadLastAccess_Epoch(got, store, codespaceName, dateNow) ==
  IF got THEN getCodespaceLastAccess(store, codespaceName, dateNow) ELSE 0

\* getCodespaceLastAccess with its catch block: return Date.now()
ReadLastAccess(got, store, codespaceName, dateNow) ==
  IF got THEN getCodespaceLastAccess(store, codespaceName, dateNow) ELSE dateNow

\* a write that is left out
RecordAccess_Skip(done, store, codespaceName, timestamp) == store

\* updateCodespaceLastAccess: chrome.storage.local.set({[key]: timestamp})
RecordAccess(done, store, codespaceName, timestamp) ==
  IF done THEN [store EXCEPT ![codespaceName] = timestamp] ELSE store

\* a removal that is left out
RemoveAccess_Keep(done, store, codespaceName) == store

\* removeCodespaceAccess: chrome.storage.local.remove(key)
RemoveAccess(done, store, codespaceName) ==
  IF done THEN [store EXCEPT ![codespaceName] = 0] ELSE store

\* early returns that test the token only
SkipPolicy_TokenOnly(s) == s.githubToken = ""

\* early returns that test the switch only
SkipPolicy_EnabledOnly(s) == ~s.autoStopEnabled

\* the early returns of performCodespaceCheck and enforceMaxCodespaces
SkipPolicy(s) == s.githubToken = "" \/ ~s.autoStopEnabled

\* settings.autoStopMinutes * 60 * 1000
inactiveThreshold(s) == s.autoStopMinutes * MsPerMinute

\* a test with the two times swapped
IsInactive_Swapped(dateNow, lastAccess, s) ==
  lastAccess - dateNow > inactiveThreshold(s)

\* a test that also fires at exactly the threshold
IsInactive_AtThreshold(dateNow, lastAccess, s) ==
  dateNow - lastAccess >= inactiveThreshold(s)

\* the test of checkAndStopInactiveCodespaces: inactiveDuration > inactiveThreshold
IsInactive(dateNow, lastAccess, s) ==
  dateNow - lastAccess > inactiveThreshold(s)

\* a comparator with its operands swapped: newest first
RECURSIVE InsertSorted_NewestFirst(_, _)
InsertSorted_NewestFirst(sorted, e) ==
  IF sorted = <<>> THEN <<e>>
  ELSE IF e.lastAccess - Head(sorted).lastAccess <= 0
       THEN <<Head(sorted)>> \o InsertSorted_NewestFirst(Tail(sorted), e)
       ELSE <<e>> \o sorted

\* Array.prototype.sort((a, b) => a.lastAccess - b.lastAccess): a stable sort
RECURSIVE InsertSorted(_, _)
InsertSorted(sorted, e) ==
  IF sorted = <<>> THEN <<e>>
  ELSE IF Head(sorted).lastAccess - e.lastAccess <= 0
       THEN <<Head(sorted)>> \o InsertSorted(Tail(sorted), e)
       ELSE <<e>> \o sorted

RECURSIVE SortByLastAccess(_)
SortByLastAccess(cs) ==
  IF cs = <<>> THEN <<>>
  ELSE InsertSorted(SortByLastAccess(SubSeq(cs, 1, Len(cs) - 1)), cs[Len(cs)])

\* enforceMaxCodespaces, lines 448-465: the codespaces to stop, oldest first
codespacesToStop(codespacesWithAccess, s) ==
  IF Len(codespacesWithAccess) <= s.maxCodespaces THEN <<>>
  ELSE LET sorted == SortByLastAccess(codespacesWithAccess)
           excessCount == Len(sorted) - s.maxCodespaces
       IN SubSeq(sorted, 1, excessCount)

Names(cs) == [i \in 1..Len(cs) |-> cs[i].name]

Range(f) == { f[i] : i \in DOMAIN f }

\* ------------------------------------------------------------- retrier
\* HTTP outcomes of one fetch: 200 ok, 401/403/404 client errors, 429 rate
\* limit, 500 server error, 0 network error
Statuses == {200, 401, 403, 404, 500}
RetrierStatuses == {200, 401, 403, 404, 429, 500, 0}

\* values of the Retry-After header of a 429 response, as character
\* sequences of decimal digits; <<>>: headers.get returns null
RetryAfterChoices == { <<>>, <<"0">>, <<"2">>, <<"1", "0">> }

\* what one invocation of fn() may end with: the status, and the Retry-After
\* header the retrier reads from a 429 response
Outcomes ==
  { [status |-> st, retryAfter |-> <<>>] : st \in RetrierStatuses \ {429} }
    \cup { [status |-> 429, retryAfter |-> h] : h \in RetryAfterChoices }

Digit ==
  ("0" :> 0) @@ ("1" :> 1) @@ ("2" :> 2) @@ ("3" :> 3) @@ ("4" :> 4) @@
  ("5" :> 5) @@ ("6" :> 6) @@ ("7" :> 7) @@ ("8" :> 8) @@ ("9" :> 9)

RECURSIVE ParseDigits(_, _)
ParseDigits(s, value) ==
  IF s = <<>> \/ Head(s) \notin DOMAIN Digit THEN value
  ELSE ParseDigits(Tail(s), value * 10 + Digit[Head(s)])

\* parseInt of a string that starts with a decimal digit
parseInt(s) == ParseDigits(s, 0)

\* a delay that never looks at the header
RetryDelay_IgnoreHeader(retryAfter, attempt) == RETRY_DELAY_MS * (2 ^ attempt)

\* the delay after a 429: retryAfter ? parseInt(retryAfter) * 1000
\*                                   : RETRY_DELAY_MS * Math.pow(2, attempt)
RetryDelay(retryAfter, attempt) ==
  IF retryAfter # <<>> THEN parseInt(retryAfter) * 1000
  ELSE RETRY_DELAY_MS * (2 ^ attempt)

\* a test that knows 401 only
NonRetryable_AuthOnly(status) == status = 401

\* error.status === 401 || error.status === 403 || error.status === 404
NonRetryable(status) == status \in {401, 403, 404}

\* a test that lets the last attempt sleep as well
AttemptsRemain_Always(attempt, maxAttempts) == attempt < maxAttempts

\* attempt < maxAttempts - 1
AttemptsRemain(attempt, maxAttempts) == attempt < maxAttempts - 1

\* one run of retryWithBackoff. pc: "attempt" fn() is running, "sleep" the
\* sleep is running, "returned" / "thrown" the run is over; op: the caller;
\* token: the token the caller was given; attempt: the loop variable; seen: the outcomes of fn() so far; calls: the
\* invocations of fn(); sleeps: the delays slept; status: lastError.status
IdleCall ==
  [pc |-> "idle", op |-> "none", token |-> "none", maxAttempts |-> 0, attempt |-> 0,
   seen |-> <<>>, calls |-> 0, sleeps |-> <<>>, status |-> 0]

\* a loop test that lets one more iteration in
RetryLoop_OneMore(r) ==
  IF r.attempt <= r.maxAttempts THEN [r EXCEPT !.pc = "attempt"]
  ELSE [r EXCEPT !.pc = "thrown"]

\* the test of the for loop; after the loop: throw lastError
RetryLoop(r) ==
  IF r.attempt < r.maxAttempts THEN [r EXCEPT !.pc = "attempt"]
  ELSE [r EXCEPT !.pc = "thrown"]

\* fn() of the current iteration ends with outcome o
RetryOnOutcome(r, o) ==
  LET called == [r EXCEPT !.calls = @ + 1, !.seen = Append(@, o),
                          !.status = o.status]
  IN IF o.status = 200 THEN [called EXCEPT !.pc = "returned"]
     ELSE IF o.status = 429
     THEN [called EXCEPT !.pc = "sleep",
                         !.sleeps = Append(@, RetryDelay(o.retryAfter, r.attempt))]
     ELSE IF NonRetryable(o.status) THEN [called EXCEPT !.pc = "thrown"]
     ELSE IF AttemptsRemain(r.attempt, r.maxAttempts)
     THEN [called EXCEPT !.pc = "sleep",
                         !.sleeps = Append(@, RETRY_DELAY_MS * (2 ^ r.attempt))]
     ELSE RetryLoop([called EXCEPT !.attempt = @ + 1])

\* the sleep is over: continue, or the end of the catch block; attempt++
RetryOnWake(r) == RetryLoop([r EXCEPT !.attempt = @ + 1])

\* retryWithBackoff(fn, maxAttempts) is called
RetryBegin(op, maxAttempts) ==
  RetryLoop([IdleCall EXCEPT !.op = op, !.maxAttempts = maxAttempts])

\* the run to its end, fn() giving outcomes[1], outcomes[2], ...
RECURSIVE RetryFrom(_, _)
RetryFrom(outcomes, r) ==
  IF r.pc = "attempt" THEN RetryFrom(outcomes, RetryOnOutcome(r, outcomes[r.attempt + 1]))
  ELSE IF r.pc = "sleep" THEN RetryFrom(outcomes, RetryOnWake(r))
  ELSE r

retryWithBackoff(op, outcomes, maxAttempts) ==
  RetryFrom(outcomes, RetryBegin(op, maxAttempts))

\* the outcomes the remote API may give to the attempts of one call
AttemptOutcomes ==
  [1..MAX_RETRY_ATTEMPTS -> { o \in Outcomes : o.status \in Statuses }]

\* a test that takes every token for a token
NoToken_Never(token) == FALSE

\* !token
NoToken(token) == token = ""

\* throw new APIError(..., 401, null): no request, no retrier
ThrownWithoutToken(op, token) ==
  [IdleCall EXCEPT !.pc = "thrown", !.op = op, !.token = token, !.status = 401]

\* getAllCodespaces / stopCodespace: no token is a 401 without any request
ApiCall(op, token, outcomes) ==
  IF NoToken(token) THEN ThrownWithoutToken(op, token)
  ELSE [retryWithBackoff(op, outcomes, MAX_RETRY_ATTEMPTS) EXCEPT !.token = token]

\* the tokens a settings object may hold
Tokens == {"", "tok"}

\* what a call may end with: success, or the status of the error it throws
ApiResultsOf ==
  [token \in Tokens |->
    { [ok |-> ApiCall("any", token, o).pc = "returned",
       status |-> ApiCall("any", token, o).status] : o \in AttemptOutcomes }]

ApiResults(token) == ApiResultsOf[token]

\* ------------------------------------------------------------- state
VARIABLES
  settings,   \* chrome.storage.local 'settings', merged over DEFAULT_SETTINGS
  ledger,     \* chrome.storage.local codespace_access_<name>; 0: no key
  remote,     \* state of each codespace at GitHub
  now,        \* Date.now()
  passes,     \* listener invocations started so far
  task,       \* the listener invocations: position, local variables, and
              \* the log of what the invocation has done
  call,       \* a call of the remote API looked at step by step: the run
              \* of retryWithBackoff it makes
  faults,     \* calls of chrome.storage and chrome.notifications may reject
  exported,   \* the object exportSettings has returned last
  imported    \* the object importSettings has been given last

vars == <<settings, ledger, remote, now, passes, task, call, faults, exported, imported>>

\* pc: position; kind: entry point; arg: codespace name given to it;
\* cfg: the settings it read; list: filteredCodespaces; idx: loop index;
\* nowAt: 'now' of checkAndStopInactiveCodespaces; acc: codespacesWithAccess,
\* then codespacesToStop; log: what the invocation has done
IdleTask ==
  [pc |-> "idle", kind |-> "none", arg |-> "none", cfg |-> DEFAULT_SETTINGS,
   list |-> <<>>, idx |-> 0, nowAt |-> 0, acc |-> <<>>, log |-> <<>>]

\* exportSettings has not run
NotExported == [none |-> TRUE]

\* importSettings has not run
NotImported == [none |-> TRUE]

\* whether a call of chrome.storage or chrome.notifications resolves
StoreOutcomes == IF faults THEN BOOLEAN ELSE {TRUE}

\* the helpers whose body is one try block with a catch that only logs:
\* getSettings, getCodespaceLastAccess, updateCodespaceLastAccess,
\* removeCodespaceAccess and showNotification
TryBlocks == {"settings", "read", "write", "remove", "notify"}

\* helpers of which showNotification lets its rejection out
Caught_NotNotify(site) == site \in TryBlocks \ {"notify"}

\* a rejection inside the helper is caught by the helper itself
Caught(site) == site \in TryBlocks

\* a rejection no try block encloses: the promise of the listener rejects
\* and the invocation is over without having reached its end
Uncaught(t) == [t EXCEPT !.pc = "uncaught"]

Init ==
  /\ settings \in SettingsChoices
  /\ ledger \in [Ids -> {0, StartMs}]
  /\ remote \in [Ids -> {"Available", "Shutdown"}]
  /\ now = StartMs
  /\ passes = 0
  /\ task = [p \in Tasks |-> IdleTask]
  /\ call = IdleCall
  /\ faults = FALSE
  /\ imported = NotImported
  /\ exported = NotExported

\* ------------------------------------------------------------- helpers
Ev(e, i, r, o, st) == [ev |-> e, id |-> i, reason |-> r, ok |-> o, status |-> st]

\* the orders in which GET /user/codespaces may return the codespaces
ListOrders(states) ==
  LET names == DOMAIN states
  IN { o \in [1..Cardinality(names) -> names] : Range(o) = names }

\* a list that keeps every codespace whatever its state
ActiveOf_All(allCodespaces, states) == allCodespaces

\* getActiveCodespaces: allCodespaces.filter(cs => cs.state === 'Available')
RECURSIVE ActiveOf(_, _)
ActiveOf(allCodespaces, states) ==
  IF allCodespaces = <<>> THEN <<>>
  ELSE IF states[Head(allCodespaces)] = "Available"
       THEN <<Head(allCodespaces)>> \o ActiveOf(Tail(allCodespaces), states)
       ELSE ActiveOf(Tail(allCodespaces), states)

\* getActiveCodespaces then filterCodespacesByRepo, for every order in which
\* the API may list the codespaces
FilteredLists(states, excludedRepos) ==
  { filterCodespacesByRepo(ActiveOf(order, states), excludedRepos) :
      order \in ListOrders(states) }

Busy(p) == task[p].pc \notin {"idle", "done"}

\* the invocation returns: its local variables are gone, its log remains
\* until the task is used again
Finished(t, events) ==
  [IdleTask EXCEPT !.pc = "done", !.kind = t.kind, !.arg = t.arg, !.cfg = t.cfg,
                   !.list = t.list, !.nowAt = t.nowAt, !.log = t.log \o events]

\* an event is dispatched to a listener: a new invocation starts (the tasks
\* are interchangeable: the event takes the first free one)
Dispatch(p) ==
  /\ task[p].pc \in {"idle", "done"}
  /\ \A q \in Tasks : q < p => Busy(q)
  /\ passes < MaxPasses
  /\ passes' = passes + 1

\* ------------------------------------------------------------- triggers
\* chrome.alarms.onAlarm, and chrome.runtime.onMessage with action
\* 'refreshCheck': both call performCodespaceCheck()
PeriodicCheck(p) ==
  /\ Dispatch(p)
  /\ task' = [task EXCEPT ![p] = [IdleTask EXCEPT !.pc = "check_settings", !.kind = "check"]]
  /\ UNCHANGED <<call, faults, imported, exported, settings, ledger, remote, now>>

\* chrome.tabs.onActivated / onUpdated on a codespace tab: handleTabActivity
\* records the access, then goes on to enforceMaxCodespaces
TabActivity(p, id) ==
  /\ Dispatch(p)
  /\ \E done \in StoreOutcomes :
       LET t == [IdleTask EXCEPT !.pc = "max_settings", !.kind = "tab", !.arg = id,
                                 !.log = <<Ev("record", id, "none", done, 0)>>]
       IN /\ ledger' = RecordAccess(done, ledger, id, now)
          /\ task' = [task EXCEPT ![p] =
               IF done \/ Caught("write") THEN t ELSE Uncaught(t)]
  /\ UNCHANGED <<call, faults, imported, exported, settings, remote, now>>

\* chrome.runtime.onMessage, action 'stopCodespace'
ManualStop(p, id) ==
  /\ Dispatch(p)
  /\ task' = [task EXCEPT ![p] =
       [IdleTask EXCEPT !.pc = "manual_settings", !.kind = "manual", !.arg = id]]
  /\ UNCHANGED <<call, faults, imported, exported, settings, ledger, remote, now>>

\* ------------------------------------------------------------- performCodespaceCheck
\* the settings an invocation reads; a failed read is logged
WithSettings(t, got) ==
  [t EXCEPT !.cfg = getSettings(got, settings),
            !.log = @ \o (IF got THEN <<>>
                          ELSE <<Ev("settings", "none", "none", FALSE, 0)>>)]

CheckSettings(p) ==
  /\ task[p].pc = "check_settings"
  /\ \E got \in StoreOutcomes :
       LET t == WithSettings(task[p], got)
       IN task' = [task EXCEPT ![p] =
            IF SkipPolicy(t.cfg)
            THEN Finished(t, <<>>)
            ELSE [t EXCEPT !.pc = "check_list"]]
  /\ UNCHANGED <<call, faults, imported, exported, settings, ledger, remote, now, passes>>

\* a failed list call that is passed over: the pass goes on, to position
\* 'again', with every codespace of the account
AbortCycle_GoOn(t, events, again) ==
  [t EXCEPT !.log = @ \o events, !.list = <<"a", "b">>, !.idx = 1, !.pc = again]

\* the list call throws: the rest of the try block (of the function, in
\* enforceMaxCodespaces) is skipped
AbortCycle(t, events, again) == Finished(t, events)

\* the catch block of performCodespaceCheck: if (error.status === 401)
\* showNotification(..., 'error')
AuthNotice(status, shown) ==
  IF status = 401 THEN <<Ev("notify", "none", "error", shown, status)>> ELSE <<>>

\* getActiveCodespaces, filterCodespacesByRepo, and the first line of
\* checkAndStopInactiveCodespaces; a failed list call goes to the catch block
CheckList(p) ==
  /\ task[p].pc = "check_list"
  /\ \E r \in ApiResults(task[p].cfg.githubToken),
        filtered \in FilteredLists(remote, task[p].cfg.excludedRepos),
        shown \in StoreOutcomes :
       LET t == task[p]
           listed == [t EXCEPT !.list = filtered, !.nowAt = now, !.idx = 1,
                               !.log = Append(@, Ev("list", "none", "none", TRUE, 200))]
           aborted == AbortCycle(t, <<Ev("list", "none", "none", FALSE, r.status)>>
                                      \o AuthNotice(r.status, shown), "check_read")
       IN task' = [task EXCEPT ![p] =
            IF r.ok
            THEN IF filtered = <<>> THEN Finished(listed, <<>>)
                 ELSE [listed EXCEPT !.pc = "check_read"]
            ELSE IF r.status = 401 /\ ~shown /\ ~Caught("notify")
                 THEN Uncaught(aborted)
                 ELSE aborted]
  /\ UNCHANGED <<call, faults, imported, exported, settings, ledger, remote, now, passes>>

\* a loop that goes round without moving to the next element
NextInLoop_SameElement(t, n, again) ==
  IF t.idx + 1 > n THEN [t EXCEPT !.pc = again] ELSE [t EXCEPT !.idx = @ + 1, !.pc = again]

\* a for loop that reads the stored settings again for its next element
NextInLoop_Reread(t, n, again) ==
  IF t.idx + 1 > n THEN Finished(t, <<>>)
  ELSE [t EXCEPT !.idx = @ + 1, !.pc = again, !.cfg = settings]

\* a for loop over n elements moves to the next element, or ends the pass
NextInLoop(t, n, again) ==
  IF t.idx + 1 > n THEN Finished(t, <<>>)
  ELSE [t EXCEPT !.idx = @ + 1, !.pc = again]

\* a failed read is logged
AfterRead(t, id, got) ==
  [t EXCEPT !.log = @ \o (IF got THEN <<>> ELSE <<Ev("read", id, "none", FALSE, 0)>>)]

CheckRead(p) ==
  /\ task[p].pc = "check_read"
  /\ \E got \in StoreOutcomes :
       LET t == AfterRead(task[p], task[p].list[task[p].idx], got)
           lastAccess == ReadLastAccess(got, ledger, t.list[t.idx], now)
       IN task' = [task EXCEPT ![p] =
            IF IsInactive(t.nowAt, lastAccess, t.cfg)
            THEN [t EXCEPT !.pc = "check_stop"]
            ELSE NextInLoop(t, Len(t.list), "check_read")]
  /\ UNCHANGED <<call, faults, imported, exported, settings, ledger, remote, now, passes>>

\* a failed stop that ends the pass
AfterFailedStop_Abort(t, n, again) == Finished(t, <<>>)

\* the catch block inside the for loop: console.error, then the next element
AfterFailedStop(t, n, again) == NextInLoop(t, n, again)

\* stopCodespace, and on success showNotification
StopStep(p, id, reason, forget, n, again) ==
  \E r \in ApiResults(task[p].cfg.githubToken), shown \in StoreOutcomes :
    LET t == task[p]
    IN IF r.ok
       THEN /\ remote' = [remote EXCEPT ![id] = "Shutdown"]
            /\ task' = [task EXCEPT ![p] =
                 [t EXCEPT !.pc = forget,
                           !.log = @ \o <<Ev("stop", id, reason, TRUE, 200),
                                          Ev("notify", id, reason, shown, 200)>>]]
       ELSE /\ task' = [task EXCEPT ![p] =
                 AfterFailedStop([t EXCEPT !.log = Append(@, Ev("stop", id, reason, FALSE, r.status))],
                                 n, again)]
            /\ UNCHANGED remote

\* a removal the loop does not wait for: it goes on to the next element
ForgetStep_NotAwaited(p, id, n, again) ==
  /\ ledger' = ledger
  /\ task' = [task EXCEPT ![p] = NextInLoop(task[p], n, again)]

\* removeCodespaceAccess
ForgetStep(p, id, n, again) ==
  \E done \in StoreOutcomes :
    /\ ledger' = RemoveAccess(done, ledger, id)
    /\ task' = [task EXCEPT ![p] =
         NextInLoop([task[p] EXCEPT !.log = Append(@, Ev("forget", id, "none", done, 0))],
                    n, again)]

CheckStop(p) ==
  /\ task[p].pc = "check_stop"
  /\ StopStep(p, task[p].list[task[p].idx], "IdleTimeout", "check_forget",
              Len(task[p].list), "check_read")
  /\ UNCHANGED <<call, faults, imported, exported, settings, ledger, now, passes>>

CheckForget(p) ==
  /\ task[p].pc = "check_forget"
  /\ ForgetStep(p, task[p].list[task[p].idx], Len(task[p].list), "check_read")
  /\ UNCHANGED <<call, faults, imported, exported, settings, remote, now, passes>>

\* ------------------------------------------------------------- enforceMaxCodespaces
MaxSettings(p) ==
  /\ task[p].pc = "max_settings"
  /\ \E got \in StoreOutcomes :
       LET t == WithSettings(task[p], got)
       IN task' = [task EXCEPT ![p] =
            IF SkipPolicy(t.cfg)
            THEN Finished(t, <<>>)
            ELSE [t EXCEPT !.pc = "max_list"]]
  /\ UNCHANGED <<call, faults, imported, exported, settings, ledger, remote, now, passes>>

MaxList(p) ==
  /\ task[p].pc = "max_list"
  /\ \E r \in ApiResults(task[p].cfg.githubToken),
        filtered \in FilteredLists(remote, task[p].cfg.excludedRepos) :
       LET t == task[p]
           listed == [t EXCEPT !.list = filtered, !.idx = 1,
                               !.log = Append(@, Ev("list", "none", "none", TRUE, 200))]
       IN task' = [task EXCEPT ![p] =
            IF r.ok
            THEN IF Len(filtered) <= t.cfg.maxCodespaces THEN Finished(listed, <<>>)
                 ELSE [listed EXCEPT !.pc = "max_read"]
            ELSE AbortCycle(t, <<Ev("list", "none", "none", FALSE, r.status)>>,
                            "max_read")]
  /\ UNCHANGED <<call, faults, imported, exported, settings, ledger, remote, now, passes>>

\* one getCodespaceLastAccess of the Promise.all; after the last one the
\* sort and the slice
MaxRead(p) ==
  /\ task[p].pc = "max_read"
  /\ \E got \in StoreOutcomes :
       LET name == task[p].list[task[p].idx]
           t == AfterRead(task[p], name, got)
           read == Append(t.acc, [name |-> name,
                     lastAccess |-> ReadLastAccess(got, ledger, name, now)])
       IN task' = [task EXCEPT ![p] =
            IF t.idx < Len(t.list)
            THEN [t EXCEPT !.acc = read, !.idx = @ + 1]
            ELSE [t EXCEPT !.acc = codespacesToStop(read, t.cfg), !.idx = 1,
                           !.pc = "max_stop"]]
  /\ UNCHANGED <<call, faults, imported, exported, settings, ledger, remote, now, passes>>

MaxStop(p) ==
  /\ task[p].pc = "max_stop"
  /\ StopStep(p, task[p].acc[task[p].idx].name, "MaxExceeded", "max_forget",
              Len(task[p].acc), "max_stop")
  /\ UNCHANGED <<call, faults, imported, exported, settings, ledger, now, passes>>

MaxForget(p) ==
  /\ task[p].pc = "max_forget"
  /\ ForgetStep(p, task[p].acc[task[p].idx].name, Len(task[p].acc), "max_stop")
  /\ UNCHANGED <<call, faults, imported, exported, settings, remote, now, passes>>

\* ------------------------------------------------------------- stopCodespace message
ManualSettings(p) ==
  /\ task[p].pc = "manual_settings"
  /\ \E got \in StoreOutcomes :
       task' = [task EXCEPT ![p] = [WithSettings(task[p], got) EXCEPT !.pc = "manual_stop"]]
  /\ UNCHANGED <<call, faults, imported, exported, settings, ledger, remote, now, passes>>

\* a handler that goes on to removeCodespaceAccess whatever stopCodespace did
ManualAfterStop_Always(t, r) ==
  [t EXCEPT !.pc = "manual_forget",
            !.log = Append(@, Ev("stop", t.arg, "Manual", r.ok, r.status))]

\* await stopCodespace(...) returns, or throws to the catch block of the
\* listener: sendResponse({success: false, error: error.message})
ManualAfterStop(t, r) ==
  IF r.ok
  THEN [t EXCEPT !.pc = "manual_forget",
                 !.log = Append(@, Ev("stop", t.arg, "Manual", TRUE, 200))]
  ELSE Finished(t, <<Ev("stop", t.arg, "Manual", FALSE, r.status),
                     Ev("respond", t.arg, "none", FALSE, r.status)>>)

ManualStopCall(p) ==
  /\ task[p].pc = "manual_stop"
  /\ \E r \in ApiResults(task[p].cfg.githubToken) :
       /\ remote' = IF r.ok THEN [remote EXCEPT ![task[p].arg] = "Shutdown"] ELSE remote
       /\ task' = [task EXCEPT ![p] = ManualAfterStop(task[p], r)]
  /\ UNCHANGED <<call, faults, imported, exported, settings, ledger, now, passes>>

\* removeCodespaceAccess, showNotification, sendResponse({success: true})
ManualForget(p) ==
  /\ task[p].pc = "manual_forget"
  /\ \E done \in StoreOutcomes, shown \in StoreOutcomes :
       /\ ledger' = RemoveAccess(done, ledger, task[p].arg)
       /\ task' = [task EXCEPT ![p] =
            Finished(task[p], <<Ev("forget", task[p].arg, "none", done, 0),
                                Ev("notify", task[p].arg, "Manual", shown, 200),
                                Ev("respond", task[p].arg, "none", TRUE, 200)>>)]
  /\ UNCHANGED <<call, faults, imported, exported, settings, remote, now, passes>>

\* ------------------------------------------------------------- environment
\* the wall clock advances
Tick ==
  /\ now + TickMs <= StartMs + MaxTicks * TickMs
  /\ now' = now + TickMs
  /\ UNCHANGED <<call, faults, imported, exported, settings, ledger, remote, passes, task>>

Next ==
  \/ \E p \in Tasks : PeriodicCheck(p)
  \/ \E p \in Tasks, id \in DOMAIN remote : TabActivity(p, id)
  \/ \E p \in Tasks, id \in DOMAIN remote : ManualStop(p, id)
  \/ \E p \in Tasks : CheckSettings(p)
  \/ \E p \in Tasks : CheckList(p)
  \/ \E p \in Tasks : CheckRead(p)
  \/ \E p \in Tasks : CheckStop(p)
  \/ \E p \in Tasks : CheckForget(p)
  \/ \E p \in Tasks : MaxSettings(p)
  \/ \E p \in Tasks : MaxList(p)
  \/ \E p \in Tasks : MaxRead(p)
  \/ \E p \in Tasks : MaxStop(p)
  \/ \E p \in Tasks : MaxForget(p)
  \/ \E p \in Tasks : ManualSettings(p)
  \/ \E p \in Tasks : ManualStopCall(p)
  \/ \E p \in Tasks : ManualForget(p)
  \/ Tick

Spec == Init /\ [][Next]_vars

\* ------------------------------------------------------------- unbounded runs
\* Chrome stops the service worker when no listener is running and starts it
\* again for the next event: the count of invocations starts over
Restart ==
  /\ \A p \in Tasks : ~Busy(p)
  /\ passes = MaxPasses
  /\ passes' = 0
  /\ task' = [p \in Tasks |-> IdleTask]
  /\ UNCHANGED <<call, faults, imported, exported, settings, ledger, remote, now>>

LiveInit ==
  /\ settings \in [githubToken : {"tok"}, autoStopEnabled : {TRUE},
                    maxCodespaces : {1, 2}, autoStopMinutes : {0, 30},
                    excludedRepos : {<<>>, << <<"y">> >>}]
  /\ ledger \in [Ids -> {0, StartMs}]
  /\ remote \in [Ids -> {"Available", "Shutdown"}]
  /\ now = StartMs
  /\ passes = 0
  /\ task = [p \in Tasks |-> IdleTask]
  /\ call = IdleCall
  /\ faults = FALSE
  /\ imported = NotImported
  /\ exported = NotExported

\* every step of a running invocation
Step(p) ==
  \/ CheckSettings(p) \/ CheckList(p) \/ CheckRead(p) \/ CheckStop(p) \/ CheckForget(p)
  \/ MaxSettings(p) \/ MaxList(p) \/ MaxRead(p) \/ MaxStop(p) \/ MaxForget(p)
  \/ ManualSettings(p) \/ ManualStopCall(p) \/ ManualForget(p)

\* one invocation after the other, without end
LiveNext ==
  \/ PeriodicCheck(1)
  \/ \E id \in DOMAIN remote : TabActivity(1, id)
  \/ \E id \in DOMAIN remote : ManualStop(1, id)
  \/ Step(1)
  \/ Tick
  \/ Restart

\* the list call and the stop call of a PeriodicCheck succeed
CheckListOk(p) == CheckList(p) /\ task'[p].pc # "done"
CheckStopOk(p) == CheckStop(p) /\ task'[p].pc = "check_forget"

\* the alarm keeps firing, a running invocation keeps going, and list and stop
\* calls that are tried again and again eventually succeed
Fairness ==
  /\ WF_vars(Restart)
  /\ SF_vars(PeriodicCheck(1))
  /\ WF_vars(Step(1))
  /\ SF_vars(CheckListOk(1))
  /\ SF_vars(CheckStopOk(1))

LiveSpec == LiveInit /\ [][LiveNext]_vars /\ Fairness

\* ------------------------------------------------------------- single passes
\* One listener invocation at a time and a clock that stands still, over an
\* account of three codespaces whose ledger entries lie 35, 30 and 25
\* minutes in the past: the decisions of a pass as functions of their inputs.
PolicyTimes == {0, StartMs, StartMs + 5 * MsPerMinute, StartMs + 10 * MsPerMinute}

PolicySettings ==
  [githubToken : {"tok"}, autoStopEnabled : {TRUE}, maxCodespaces : {1, 2, 3},
   autoStopMinutes : {0, 30}, excludedRepos : ExcludedChoices]

PolicyInit ==
  /\ settings \in PolicySettings
  /\ ledger \in [PolicyIds -> PolicyTimes]
  /\ remote = [i \in PolicyIds |-> "Available"]
  /\ now = StartMs + 35 * MsPerMinute
  /\ passes = MaxPasses - 1
  /\ task = [p \in Tasks |-> IdleTask]
  /\ call = IdleCall
  /\ faults = FALSE
  /\ imported = NotImported
  /\ exported = NotExported

PolicyNext ==
  \/ PeriodicCheck(1)
  \/ \E id \in DOMAIN remote : TabActivity(1, id)
  \/ CheckSettings(1)
  \/ CheckList(1)
  \/ CheckRead(1)
  \/ CheckStop(1)
  \/ CheckForget(1)
  \/ MaxSettings(1)
  \/ MaxList(1)
  \/ MaxRead(1)
  \/ MaxStop(1)
  \/ MaxForget(1)

PolicySpec == PolicyInit /\ [][PolicyNext]_vars

\* ------------------------------------------------------------- a failing browser
\* One listener invocation, 35 minutes after the start, in a browser whose
\* chrome.storage and chrome.notifications calls may reject at any call.
FaultInit ==
  /\ settings \in SettingsChoices
  /\ ledger \in [Ids -> {0, StartMs}]
  /\ remote \in [Ids -> {"Available", "Shutdown"}]
  /\ now = StartMs + TickMs
  /\ passes = MaxPasses - 1
  /\ task = [p \in Tasks |-> IdleTask]
  /\ call = IdleCall
  /\ faults = TRUE
  /\ imported = NotImported
  /\ exported = NotExported

FaultNext ==
  \/ PeriodicCheck(1)
  \/ \E id \in DOMAIN remote : TabActivity(1, id)
  \/ \E id \in DOMAIN remote : ManualStop(1, id)
  \/ Step(1)

\* every await of a running invocation settles
FaultSpec == FaultInit /\ [][FaultNext]_vars /\ WF_vars(Step(1))

\* ------------------------------------------------------------- the options page
\* The settings objects saveSettingsHandler builds from the form: the five
\* fields the background reads, and darkMode and language.
OptionsChoices ==
  [githubToken : Tokens, autoStopEnabled : BOOLEAN, maxCodespaces : {1, 2},
   autoStopMinutes : {0, 30}, excludedRepos : ExcludedChoices,
   darkMode : BOOLEAN, language : {"ja", "en"}]

\* an export that copies the settings and deletes nothing
exportSettings_Whole(got, stored) == getSettings(got, stored)

\* exportSettings: const exportData = { ...settings };
\* delete exportData.githubToken
exportSettings(got, stored) ==
  LET s == getSettings(got, stored)
  IN [f \in DOMAIN s \ {"githubToken"} |-> s[f]]

\* the object spread { ...a, ...b }
Spread(a, b) ==
  [f \in DOMAIN a \cup DOMAIN b |-> IF f \in DOMAIN b THEN b[f] ELSE a[f]]

\* an import that lets the imported object win on every field
importSettings_Overwrite(got, done, stored, data) ==
  IF done THEN Spread(getSettings(got, stored), data) ELSE stored

\* importSettings: { ...currentSettings, ...settings, githubToken:
\* currentSettings.githubToken }, then saveSettings
importSettings(got, done, stored, data) ==
  LET currentSettings == getSettings(got, stored)
      newSettings == Spread(Spread(currentSettings, data),
                            [githubToken |-> currentSettings.githubToken])
  IN IF done THEN newSettings ELSE stored

\* the objects a settings file may hold: a file exported earlier, files
\* that carry a token, a file with one setting
ImportChoices ==
  (IF exported = NotExported THEN {} ELSE {exported})
  \cup { [githubToken |-> t] : t \in Tokens }
  \cup { [githubToken |-> t, maxCodespaces |-> 2, language |-> "en"] : t \in Tokens }
  \cup { [autoStopEnabled |-> FALSE] }

\* saveSettingsHandler: saveSettings(settings)
SaveSettings(s) ==
  /\ settings' = s
  /\ UNCHANGED <<ledger, remote, now, passes, task, call, faults, imported, exported>>

\* exportSettingsHandler: const data = await exportSettings()
ExportSettings ==
  /\ \E got \in StoreOutcomes : exported' = exportSettings(got, settings)
  /\ UNCHANGED <<settings, ledger, remote, now, passes, task, call, faults, imported>>

\* importSettingsHandler: const data = JSON.parse(text); importSettings(data)
ImportSettings ==
  /\ \E data \in ImportChoices, got \in StoreOutcomes, done \in StoreOutcomes :
       /\ imported' = data
       /\ settings' = importSettings(got, done, settings, data)
  /\ UNCHANGED <<ledger, remote, now, passes, task, call, faults, exported>>

OptionsInit ==
  /\ settings \in OptionsChoices
  /\ ledger = [i \in Ids |-> 0]
  /\ remote = [i \in Ids |-> "Available"]
  /\ now = StartMs
  /\ passes = 0
  /\ task = [p \in Tasks |-> IdleTask]
  /\ call = IdleCall
  /\ faults = FALSE
  /\ imported = NotImported
  /\ exported = NotExported

OptionsNext ==
  \/ \E s \in OptionsChoices : SaveSettings(s)
  \/ ExportSettings

OptionsSpec == OptionsInit /\ [][OptionsNext]_vars

\* the settings saved while an invocation of a listener runs: every
\* setting differs from what at least one invocation has read
SavedChoices ==
  [githubToken : {"", "tok"}, autoStopEnabled : BOOLEAN, maxCodespaces : {1},
   autoStopMinutes : {0}, excludedRepos : { << <<"x">> >> }]

\* the user saves other settings on the options page while one invocation
\* of a listener runs
ConfigInit ==
  /\ settings \in SettingsChoices
  /\ ledger \in [Ids -> {0, StartMs}]
  /\ remote \in [Ids -> {"Available", "Shutdown"}]
  /\ now = StartMs + TickMs
  /\ passes = MaxPasses - 1
  /\ task = [p \in Tasks |-> IdleTask]
  /\ call = IdleCall
  /\ faults = FALSE
  /\ imported = NotImported
  /\ exported = NotExported

ConfigNext ==
  \/ PeriodicCheck(1)
  \/ \E id \in DOMAIN remote : TabActivity(1, id)
  \/ \E id \in DOMAIN remote : ManualStop(1, id)
  \/ Step(1)
  \/ \E s \in SavedChoices : SaveSettings(s)

ConfigSpec == ConfigInit /\ [][ConfigNext]_vars

\* the options page used to export and import settings files only
ImportNext ==
  \/ ExportSettings
  \/ ImportSettings

ImportSpec == OptionsInit /\ [][ImportNext]_vars

\* ------------------------------------------------------------- one call of the API
\* One call of the remote API, step by step: the token test of the caller,
\* then the run of retryWithBackoff with every outcome fn() may have.

\* getAllCodespaces(token)
GetAllCodespaces(token) ==
  /\ call.pc = "idle"
  /\ call' = IF NoToken(token) THEN ThrownWithoutToken("list", token)
             ELSE [RetryBegin("list", MAX_RETRY_ATTEMPTS) EXCEPT !.token = token]
  /\ UNCHANGED <<settings, ledger, remote, now, passes, task, faults, imported, exported>>

\* stopCodespace(codespaceName, token)
StopCodespace(token) ==
  /\ call.pc = "idle"
  /\ call' = IF NoToken(token) THEN ThrownWithoutToken("stop", token)
             ELSE [RetryBegin("stop", MAX_RETRY_ATTEMPTS) EXCEPT !.token = token]
  /\ UNCHANGED <<settings, ledger, remote, now, passes, task, faults, imported, exported>>

\* retryWithBackoff(fn, maxAttempts) with a maxAttempts of the caller's choice
RetryWith(maxAttempts) ==
  /\ call.pc = "idle"
  /\ call' = RetryBegin("fn", maxAttempts)
  /\ UNCHANGED <<settings, ledger, remote, now, passes, task, faults, imported, exported>>

\* return await fn(), or the catch block up to its await sleep(delay)
RetryAttempt ==
  /\ call.pc = "attempt"
  /\ \E o \in Outcomes : call' = RetryOnOutcome(call, o)
  /\ UNCHANGED <<settings, ledger, remote, now, passes, task, faults, imported, exported>>

\* the timer of sleep(delay) fires
RetryWake ==
  /\ call.pc = "sleep"
  /\ call' = RetryOnWake(call)
  /\ UNCHANGED <<settings, ledger, remote, now, passes, task, faults, imported, exported>>

ApiInit ==
  /\ settings = DEFAULT_SETTINGS
  /\ ledger = [i \in Ids |-> 0]
  /\ remote = [i \in Ids |-> "Available"]
  /\ now = StartMs
  /\ passes = 0
  /\ task = [p \in Tasks |-> IdleTask]
  /\ call = IdleCall
  /\ faults = FALSE
  /\ imported = NotImported
  /\ exported = NotExported

ApiNext ==
  \/ \E token \in Tokens : GetAllCodespaces(token)
  \/ \E token \in Tokens : StopCodespace(token)
  \/ \E maxAttempts \in 1..MAX_RETRY_ATTEMPTS : RetryWith(maxAttempts)
  \/ RetryAttempt
  \/ RetryWake

\* fn() settles and the timer of a sleep fires
ApiSpec == ApiInit /\ [][ApiNext]_vars /\ WF_vars(RetryAttempt) /\ WF_vars(RetryWake)

\* ------------------------------------------------------------- properties
Log(p) == task[p].log
Events(p, e) == { i \in DOMAIN Log(p) : Log(p)[i].ev = e }

\* the codespaces the pass of p has issued a stop call for, with a reason
StopTargets(p, reason) ==
  { Log(p)[i].id : i \in { j \in Events(p, "stop") : Log(p)[j].reason = reason } }

\* the pass of p is automatic: a PeriodicCheck or an ActivityEvent
Automatic(p) == task[p].kind \in {"check", "tab"}
AutoStopTargets(p) == StopTargets(p, "IdleTimeout") \cup StopTargets(p, "MaxExceeded")

ListSucceeded(p) == \E i \in Events(p, "list") : Log(p)[i].ok
AllStopsSucceeded(p) == \A i \in Events(p, "stop") : Log(p)[i].ok
Completed(p) == task[p].pc = "done"

\* C1: PeriodicCheck, ActivityEvent and ManualStop are serialized: at most
\* one pass is between its start and its completion.
C1_Serialized == Cardinality({ p \in Tasks : Busy(p) }) <= 1

\* C2: after a PeriodicCheck that completed with a successful list call and
\* only successful stop calls, at most maxCodespaces of the codespaces it
\* listed (Available, not excluded) were left running by it.
C2_CapAfterCheck ==
  \A p \in Tasks :
    (/\ Completed(p) /\ task[p].kind = "check"
     /\ ListSucceeded(p) /\ AllStopsSucceeded(p))
    => Cardinality(Range(task[p].list) \ StopTargets(p, "IdleTimeout"))
         <= task[p].cfg.maxCodespaces

\* C6: with autoStopMinutes = 0 no pass issues a stop call with reason
\* IdleTimeout.
C6_ZeroDisablesIdle ==
  \A p \in Tasks :
    task[p].cfg.autoStopMinutes = 0 => StopTargets(p, "IdleTimeout") = {}

\* C7: with autoStopEnabled = false neither a PeriodicCheck nor an
\* ActivityEvent issues any stop call.
C7_DisabledStopsNothing ==
  \A p \in Tasks :
    (Automatic(p) /\ ~settings.autoStopEnabled) => Events(p, "stop") = {}

C7_Witness ==
  \E p \in Tasks :
    /\ Completed(p) /\ task[p].kind = "check"
    /\ ~settings.autoStopEnabled /\ settings.githubToken # ""
    /\ settings.excludedRepos = <<>> /\ settings.autoStopMinutes = 0
    /\ \E id \in DOMAIN remote :
         remote[id] = "Available" /\ ledger[id] # 0 /\ now - ledger[id] > 0

\* the pattern occurs in the repository name: as the whole name or as a part
Matches(repoFullName, pattern) ==
  \E u, v \in 0..Len(repoFullName) :
    /\ u + v + Len(pattern) = Len(repoFullName)
    /\ \A k \in 1..Len(pattern) : repoFullName[u + k] = pattern[k]

Excluded(id) ==
  \E k \in DOMAIN settings.excludedRepos :
    Matches(repository[id], settings.excludedRepos[k])

\* C8: a codespace whose repository name equals or contains an excluded
\* pattern is never the target of a stop call of a PeriodicCheck or an
\* ActivityEvent.
C8_ExcludedNeverStopped ==
  \A p \in Tasks :
    Automatic(p) => \A id \in AutoStopTargets(p) : ~Excluded(id)

C8_Witness ==
  \E p \in Tasks :
    /\ Automatic(p) /\ Completed(p)
    /\ StopTargets(p, "IdleTimeout") = {"a"}
    /\ Excluded("b") /\ ~Excluded("a")
    /\ remote["b"] = "Available" /\ ledger["b"] # 0 /\ ledger["b"] < task[p].nowAt

\* C9: the stop calls of a pass go to codespaces of the filtered list of
\* that pass, and to each of them at most once.
C9_StopsWithinFilteredOnce ==
  \A p \in Tasks :
    Automatic(p) =>
      /\ AutoStopTargets(p) \subseteq Range(task[p].list)
      /\ \A i, j \in Events(p, "stop") : Log(p)[i].id = Log(p)[j].id => i = j

C9_Witness ==
  \E p \in Tasks :
    /\ Completed(p) /\ task[p].kind = "tab"
    /\ Cardinality(Events(p, "stop")) = 1
    /\ Len(task[p].list) = 2
    /\ task[p].cfg.autoStopMinutes = 0

\* C10: an ActivityEvent for a codespace never stops that codespace.
C10_ActiveNotStopped ==
  \A p \in Tasks :
    task[p].kind = "tab" => task[p].arg \notin StopTargets(p, "MaxExceeded")

\* ------------------------------------------------------------- single-pass properties
\* what getCodespaceLastAccess returns for id while the clock stands still
LastAccess(id) == getCodespaceLastAccess(ledger, id, now)

\* the max-count pass of p has just chosen its codespacesToStop
JustSelected(p) ==
  /\ task[p].pc = "max_stop" /\ task[p].idx = 1 /\ Events(p, "stop") = {}

Selected(p) == { task[p].acc[i].name : i \in DOMAIN task[p].acc }

\* C4: the max-count pass selects nothing when the filtered list has at most
\* maxCodespaces elements, and otherwise exactly count - maxCodespaces
\* codespaces, none of them accessed later than one it leaves running.
C4_MaxCountSelectsOldest ==
  \A p \in Tasks :
    /\ (task[p].kind = "tab" /\ Len(task[p].list) <= task[p].cfg.maxCodespaces)
         => StopTargets(p, "MaxExceeded") = {}
    /\ JustSelected(p) =>
         /\ Selected(p) \subseteq Range(task[p].list)
         /\ Len(task[p].acc) = Len(task[p].list) - task[p].cfg.maxCodespaces
         /\ Cardinality(Selected(p)) = Len(task[p].acc)
         /\ \A x \in Selected(p), y \in Range(task[p].list) \ Selected(p) :
              LastAccess(x) <= LastAccess(y)

\* maxCodespaces = 1 and three codespaces last accessed at three different
\* times: the two oldest are selected, the oldest first
C4_Witness ==
  \E p \in Tasks :
    /\ JustSelected(p)
    /\ task[p].cfg.maxCodespaces = 1
    /\ Len(task[p].list) = 3
    /\ Names(task[p].acc) = <<"b", "c">>
    /\ ledger["b"] = StartMs /\ ledger["c"] = StartMs + 5 * MsPerMinute
    /\ LastAccess("a") = now

\* the idle pass of p has gone past element i of its list
Decided(p, i) ==
  \/ i < task[p].idx
  \/ Completed(p)

\* C5: with autoStopMinutes > 0 the idle pass selects a codespace exactly
\* when the time since its last access is strictly greater than the
\* threshold.
C5_IdleIffOverThreshold ==
  \A p \in Tasks :
    (task[p].kind = "check" /\ task[p].cfg.autoStopMinutes > 0) =>
      /\ task[p].pc = "check_stop" =>
           task[p].nowAt - LastAccess(task[p].list[task[p].idx])
             > task[p].cfg.autoStopMinutes * 60 * 1000
      /\ \A i \in DOMAIN task[p].list :
           (Decided(p, i) /\ task[p].list[i] \notin StopTargets(p, "IdleTimeout"))
             => task[p].nowAt - LastAccess(task[p].list[i])
                  <= task[p].cfg.autoStopMinutes * 60 * 1000

\* threshold 30 minutes: a codespace last accessed 35 minutes ago is
\* selected, one accessed exactly 30 minutes ago and one accessed 25 minutes
\* ago are not
C5_Witness ==
  \E p \in Tasks :
    /\ Completed(p) /\ task[p].kind = "check"
    /\ task[p].cfg.autoStopMinutes = 30
    /\ Len(task[p].list) = 3
    /\ StopTargets(p, "IdleTimeout") = {"a"}
    /\ Log(p)[Len(Log(p))].id = "a"
    /\ ledger["b"] = StartMs + 5 * MsPerMinute
    /\ ledger["c"] = StartMs + 10 * MsPerMinute
    /\ task[p].nowAt - ledger["b"] = 30 * MsPerMinute

\* ------------------------------------------------------------- liveness
\* id is Available, not excluded, and its ledger entry is older than a
\* threshold > 0, under an enabled policy with a token
IdleNow(id) ==
  /\ ~SkipPolicy(settings) /\ settings.autoStopMinutes > 0
  /\ remote[id] = "Available" /\ ~Excluded(id)
  /\ ledger[id] # 0
  /\ now - ledger[id] > settings.autoStopMinutes * 60 * 1000

\* C3: a codespace that is idle and has no further activity eventually has a
\* stop call issued for it and its ledger entry removed.
\* (unless activity is recorded for it again, which makes its entry recent)
Refreshed(id) ==
  ledger[id] # 0 /\ now - ledger[id] <= settings.autoStopMinutes * 60 * 1000

C3_IdleEventuallyStopped ==
  \A id \in Ids : IdleNow(id) ~> (ledger[id] = 0 \/ Refreshed(id))

C3_Witness ==
  \E p \in Tasks, id \in Ids :
    /\ task[p].kind = "check" /\ task[p].cfg.autoStopMinutes > 0
    /\ id \in StopTargets(p, "IdleTimeout")
    /\ \E i \in Events(p, "forget") : Log(p)[i].id = id
    /\ ledger[id] = 0

\* ------------------------------------------------------------- retrier properties
SeenStatuses == [i \in DOMAIN call.seen |-> call.seen[i].status]
Over == call.pc \in {"returned", "thrown"}

\* the number of seconds each Retry-After header asks for
HeaderSeconds == (<<"0">> :> 0) @@ (<<"2">> :> 2) @@ (<<"1", "0">> :> 10)

\* C11: a run with maxAttempts = 3 whose operation fails with 429 twice and
\* then succeeds returns the result after exactly 3 invocations and exactly
\* 2 sleeps; each sleep lasts the Retry-After seconds of the 429 it follows
\* when the header is there, and otherwise 1000 ms (first), 2000 ms (second).
C11_RateLimitedTwiceThenSuccess ==
  (call.maxAttempts = 3 /\ SeenStatuses = <<429, 429, 200>>) =>
    /\ call.pc = "returned"
    /\ call.calls = 3
    /\ Len(call.sleeps) = 2
    /\ \A i \in 1..2 :
         call.sleeps[i] =
           IF call.seen[i].retryAfter \in DOMAIN HeaderSeconds
           THEN HeaderSeconds[call.seen[i].retryAfter] * 1000
           ELSE (IF i = 1 THEN 1000 ELSE 2000)

C11_Witness ==
  /\ call.pc = "returned" /\ call.maxAttempts = 3
  /\ SeenStatuses = <<429, 429, 200>>
  /\ call.seen[1].retryAfter = <<"1", "0">> /\ call.seen[2].retryAfter = <<>>
  /\ call.sleeps = <<10000, 2000>>

\* C12: an invocation that fails with 401, 403 or 404 is the last one of the
\* run: the run is over with that error, and it has slept only after the
\* failures before it.
C12_NonRetryableSurfacesAtOnce ==
  \A i \in DOMAIN call.seen :
    call.seen[i].status \in {401, 403, 404} =>
      /\ i = Len(call.seen)
      /\ call.calls = i
      /\ call.pc = "thrown"
      /\ call.status = call.seen[i].status
      /\ Len(call.sleeps) = i - 1

C12_Witness ==
  /\ call.pc = "thrown"
  /\ SeenStatuses = <<500, 403>>
  /\ Len(call.sleeps) = 1

Transient(status) == status = 0 \/ (status >= 500 /\ status <= 599)

\* C13: a run with the default maxAttempts whose operation always fails
\* with a 5xx or a network error goes on to a third invocation, and is over
\* after exactly 3 invocations, having slept 1000 ms and 2000 ms and nothing
\* after the last one, with the error of the last invocation.
C13_TransientExhausts ==
  (/\ call.maxAttempts = MAX_RETRY_ATTEMPTS /\ call.seen # <<>>
   /\ \A i \in DOMAIN call.seen : Transient(call.seen[i].status)) =>
    /\ Len(call.seen) < 3 => ~Over
    /\ Over =>
         /\ call.pc = "thrown"
         /\ call.calls = 3
         /\ call.sleeps = <<1000, 2000>>
         /\ call.status = call.seen[3].status

C13_Witness ==
  /\ call.pc = "thrown" /\ call.op = "list"
  /\ SeenStatuses = <<500, 500, 0>>
  /\ call.status = 0

\* C14: a run never invokes the operation more than maxAttempts times,
\* whatever the outcomes (429 included), and every run that has started
\* comes to its end, with a result or an error.
C14_AtMostMaxAttempts ==
  /\ [](call.calls <= call.maxAttempts /\ Len(call.seen) = call.calls)
  /\ (call.pc \in {"attempt", "sleep"}) ~> Over

C14_Witness ==
  /\ call.pc = "thrown" /\ call.maxAttempts = 3
  /\ SeenStatuses = <<429, 429, 429>>
  /\ call.calls = 3

\* C18: getAllCodespaces and stopCodespace given an empty token throw an
\* error of status 401 without any request, retry or sleep.
C18_NoTokenNoRequest ==
  (call.op \in {"list", "stop"} /\ call.token = "") =>
    /\ call.pc = "thrown" /\ call.status = 401
    /\ call.calls = 0 /\ call.seen = <<>> /\ call.sleeps = <<>>

C18_Witness ==
  /\ call.op = "stop" /\ call.token = ""
  /\ call.pc = "thrown" /\ call.calls = 0

\* ------------------------------------------------------------- failures inside a pass
\* C15: a stop call that fails does not end the pass: a completed pass has
\* issued a stop call for every codespace it selected. An idle pass leaves
\* no listed codespace with an entry older than the threshold without a stop
\* call; a max-count pass has issued count - maxCodespaces stop calls.
C15_FailedStopDoesNotAbort ==
  \A p \in Tasks :
    (Completed(p) /\ ListSucceeded(p)) =>
      /\ task[p].kind = "check" =>
           \A id \in Range(task[p].list) :
             (/\ ledger[id] # 0
              /\ task[p].nowAt - ledger[id] > task[p].cfg.autoStopMinutes * 60 * 1000)
               => id \in StopTargets(p, "IdleTimeout")
      /\ (task[p].kind = "tab" /\ Len(task[p].list) > task[p].cfg.maxCodespaces) =>
           Cardinality(StopTargets(p, "MaxExceeded"))
             = Len(task[p].list) - task[p].cfg.maxCodespaces

\* the first of two selected codespaces could not be stopped, the second
\* was stopped all the same
C15_Witness ==
  \E p \in Tasks :
    /\ Completed(p) /\ task[p].kind = "tab"
    /\ task[p].cfg.maxCodespaces = 1 /\ Len(task[p].list) = 3
    /\ \E i, j \in Events(p, "stop") :
         i < j /\ ~Log(p)[i].ok /\ Log(p)[i].status = 500 /\ Log(p)[j].ok

ListFailed(p) == \E i \in Events(p, "list") : ~Log(p)[i].ok

\* C16: a pass whose list call failed is over at once: it issues no stop
\* call and removes no ledger entry.
C16_ListFailureAborts ==
  \A p \in Tasks :
    (Automatic(p) /\ ListFailed(p)) =>
      /\ Completed(p)
      /\ Events(p, "stop") = {}
      /\ Events(p, "forget") = {}

\* the list call of a PeriodicCheck failed while a listed codespace had been
\* idle for longer than the threshold
C16_Witness ==
  \E p \in Tasks :
    /\ Completed(p) /\ task[p].kind = "check" /\ ListFailed(p)
    /\ task[p].cfg.autoStopMinutes = 30 /\ task[p].cfg.excludedRepos = <<>>
    /\ \E id \in DOMAIN remote :
         /\ remote[id] = "Available" /\ ledger[id] # 0
         /\ now - ledger[id] > 30 * MsPerMinute

\* C17: a PeriodicCheck whose list call failed with 401 or with 403 is over
\* and has shown the error notification.
C17_AuthErrorNotified ==
  \A p \in Tasks :
    (/\ task[p].kind = "check"
     /\ \E i \in Events(p, "list") : ~Log(p)[i].ok /\ Log(p)[i].status \in {401, 403}) =>
      /\ Completed(p)
      /\ \E j \in Events(p, "notify") : Log(p)[j].reason = "error"

\* ------------------------------------------------------------- codespaces without an entry
\* C19: reading the last access of a codespace that has no ledger entry
\* creates no entry and never makes the idle pass select it, whatever the
\* threshold and however long the codespace has been running; the idle rule
\* selects only after such a read, and entries come into being only when an
\* ActivityEvent records one. So a codespace without any recorded activity
\* is never stopped with reason IdleTimeout.
C19_NoEntryNeverIdle ==
  [][/\ \A p \in Tasks :
          (task[p].pc = "check_read" /\ task'[p] # task[p]) =>
            /\ ledger' = ledger
            /\ ledger[task[p].list[task[p].idx]] = 0 => task'[p].pc # "check_stop"
     /\ \A p \in Tasks :
          (task'[p].pc = "check_stop" /\ task[p].pc # "check_stop") =>
            task[p].pc = "check_read"
     /\ \A id \in DOMAIN ledger :
          (ledger[id] = 0 /\ ledger'[id] # 0) =>
            \E p \in Tasks :
              /\ ~Busy(p) /\ task'[p].kind = "tab" /\ task'[p].arg = id
              /\ task'[p].log = <<Ev("record", id, "none", TRUE, 0)>>
    ]_vars

\* 35 minutes after the start, threshold 0: the first pass stopped b, which
\* had an entry, and went past a, which has none
C19_Witness ==
  \E p \in Tasks :
    /\ Completed(p) /\ task[p].kind = "check" /\ ListSucceeded(p)
    /\ task[p].cfg.autoStopMinutes = 0
    /\ task[p].nowAt = StartMs + TickMs
    /\ Range(task[p].list) = {"a", "b"}
    /\ StopTargets(p, "IdleTimeout") = {"b"}
    /\ ledger["a"] = 0 /\ passes = 1

\* ------------------------------------------------------------- the stopCodespace message
Has(p, e, id) == \E i \in Events(p, e) : Log(p)[i].id = id

\* C20: a ManualStop makes its stop call whatever autoStopEnabled and
\* excludedRepos are. When the call succeeds the pass removes the ledger
\* entry of the codespace, shows the stopped notification and answers
\* success; when it fails the pass removes no entry, shows no notification
\* and answers failure with the error of the call.
C20_ManualStopOutcome ==
  \A p \in Tasks :
    task[p].kind = "manual" =>
      /\ task[p].pc = "manual_forget" => (Events(p, "stop") # {} /\ AllStopsSucceeded(p))
      /\ Completed(p) =>
           /\ Cardinality(Events(p, "stop")) = 1
           /\ Cardinality(Events(p, "respond")) = 1
           /\ \A i \in Events(p, "stop"), j \in Events(p, "respond") :
                /\ Log(p)[i].id = task[p].arg /\ Log(p)[i].reason = "Manual"
                /\ Log(p)[j].ok = Log(p)[i].ok
                /\ Log(p)[i].ok =>
                     /\ Has(p, "forget", task[p].arg)
                     /\ Has(p, "notify", task[p].arg)
                /\ ~Log(p)[i].ok =>
                     /\ Events(p, "forget") = {} /\ Events(p, "notify") = {}
                     /\ Log(p)[j].status = Log(p)[i].status

\* automatic stopping is switched off and the repository of a is excluded:
\* the ManualStop of a stopped it and removed its entry
C20_Witness ==
  \E p \in Tasks :
    /\ Completed(p) /\ task[p].kind = "manual" /\ task[p].arg = "a"
    /\ ~task[p].cfg.autoStopEnabled /\ Excluded("a")
    /\ AllStopsSucceeded(p) /\ Has(p, "forget", "a")
    /\ remote["a"] = "Shutdown" /\ ledger["a"] = 0 /\ passes = 1

\* ------------------------------------------------------------- failures of the browser
\* C22: whatever the list call, the stop calls, the storage calls and the
\* notifications do, no rejection leaves a listener uncaught, and every
\* PeriodicCheck, ActivityEvent and ManualStop that has started comes to its
\* end.
C22_NothingEscapes ==
  \A p \in Tasks :
    /\ [](task[p].pc # "uncaught")
    /\ Busy(p) ~> Completed(p)

\* a PeriodicCheck with a token the API refuses: the settings were read,
\* the list call failed with 401 and the error notification was rejected
C22_Witness ==
  \E p \in Tasks :
    /\ Completed(p) /\ task[p].kind = "check"
    /\ \E i \in Events(p, "list") : ~Log(p)[i].ok /\ Log(p)[i].status = 401
    /\ \E j \in Events(p, "notify") : ~Log(p)[j].ok /\ Log(p)[j].reason = "error"

\* ------------------------------------------------------------- a codespace that is gone
\* C21: a stop call that fails with 404 is only logged: the pass that made
\* it answers no failure to the requester and shows no error notification.
C21_NotFoundNotEscalated ==
  \A p \in Tasks :
    (\E i \in Events(p, "stop") : ~Log(p)[i].ok /\ Log(p)[i].status = 404) =>
      /\ \A j \in Events(p, "respond") : Log(p)[j].ok
      /\ \A j \in Events(p, "notify") : Log(p)[j].reason # "error"

\* ------------------------------------------------------------- export
\* C23: the object exportSettings returns never has a githubToken field,
\* and it has every other field of the stored settings with the value
\* stored.
C23_ExportWithoutToken ==
  /\ []("githubToken" \notin DOMAIN exported)
  /\ [][exported' # exported =>
          /\ DOMAIN exported' = DOMAIN settings \ {"githubToken"}
          /\ \A f \in DOMAIN exported' : exported'[f] = settings[f]]_vars

C23_Witness ==
  /\ exported # NotExported
  /\ settings.githubToken = "tok"
  /\ DOMAIN exported = {"autoStopEnabled", "maxCodespaces", "autoStopMinutes",
                         "excludedRepos", "darkMode", "language"}
  /\ exported.language = "en" /\ exported.excludedRepos = << <<"x">> >>

\* ------------------------------------------------------------- skipped passes
\* C24: a PeriodicCheck that has read settings without a token or with
\* autoStopEnabled = false is over at once: it makes no list call and no
\* stop call, writes and removes no ledger entry and shows no notification.
C24_SilentSkip ==
  \A p \in Tasks :
    (/\ task[p].kind = "check" /\ task[p].pc # "check_settings"
     /\ (task[p].cfg.githubToken = "" \/ ~task[p].cfg.autoStopEnabled)) =>
      /\ Completed(p)
      /\ \A e \in {"list", "stop", "notify", "forget", "record", "respond"} :
           Events(p, e) = {}

\* no token is stored, automatic stopping is switched on and a codespace
\* has been idle for 35 minutes
C24_Witness ==
  \E p \in Tasks :
    /\ Completed(p) /\ task[p].kind = "check" /\ Log(p) = <<>>
    /\ settings.githubToken = "" /\ settings.autoStopEnabled
    /\ settings.autoStopMinutes = 30 /\ settings.excludedRepos = <<>>
    /\ \E id \in DOMAIN remote :
         remote[id] = "Available" /\ ledger[id] # 0 /\ now - ledger[id] > 30 * MsPerMinute

\* ------------------------------------------------------------- the stop loops
\* the codespaces whose stop call in the pass of p ended with the outcome ok
StoppedWith(p, ok) == { Log(p)[i].id : i \in { j \in Events(p, "stop") : Log(p)[j].ok = ok } }

\* the codespaces the pass of p has shown a stop notification for
Announced(p) ==
  { Log(p)[i].id : i \in { j \in Events(p, "notify") :
                             Log(p)[j].reason \in {"IdleTimeout", "MaxExceeded"} } }

Forgotten(p) == { Log(p)[i].id : i \in Events(p, "forget") }

InStopLoop(p) == task[p].pc \in {"check_stop", "check_forget", "max_stop", "max_forget"}

\* C25: in a PeriodicCheck or ActivityEvent pass the stop notification is
\* shown and the ledger entry removed for exactly the codespaces whose stop
\* call succeeded; a failed stop call shows nothing and changes no entry,
\* and the stop loop changes no entry of any other codespace.
C25_ForgetOnSuccessOnly ==
  /\ [](\A p \in Tasks : Automatic(p) =>
          /\ Announced(p) = StoppedWith(p, TRUE)
          /\ Forgotten(p) \subseteq StoppedWith(p, TRUE)
          /\ Completed(p) =>
               /\ Forgotten(p) = StoppedWith(p, TRUE)
               /\ \A id \in StoppedWith(p, TRUE) : ledger[id] = 0)
  /\ [][\A p \in Tasks :
          (Automatic(p) /\ InStopLoop(p) /\ task'[p] # task[p]) =>
            \A id \in DOMAIN ledger :
              ledger'[id] # ledger[id] =>
                /\ id \in StoppedWith(p, TRUE) /\ id \notin StoppedWith(p, FALSE)
                /\ ledger'[id] = 0]_vars

\* a pass over three codespaces with entries has stopped one, failed to stop
\* another, and left the third alone
C25_Witness ==
  \E p \in Tasks :
    /\ Completed(p) /\ Automatic(p)
    /\ \E a \in StoppedWith(p, TRUE), b \in StoppedWith(p, FALSE),
          c \in DOMAIN ledger \ AutoStopTargets(p) :
         ledger[a] = 0 /\ ledger[b] # 0 /\ ledger[c] # 0

\* ------------------------------------------------------------- Available only
\* the codespaces GET /user/codespaces reports as Available
AvailableNow == { id \in DOMAIN remote : remote[id] = "Available" }

\* C26: the list a PeriodicCheck or ActivityEvent pass works on holds only
\* codespaces that were Available when the pass fetched it, each once; every
\* automatic stop call targets an element of that list, and the max-count
\* pass stops something only when that list is longer than maxCodespaces.
C26_OnlyAvailableStopped ==
  /\ [](\A p \in Tasks : Automatic(p) =>
          /\ AutoStopTargets(p) \subseteq Range(task[p].list)
          /\ StopTargets(p, "MaxExceeded") # {} =>
               Len(task[p].list) > task[p].cfg.maxCodespaces)
  /\ [][\A p \in Tasks :
          (task'[p].list # task[p].list /\ task'[p].list # <<>>) =>
            /\ Range(task'[p].list) \subseteq AvailableNow
            /\ Cardinality(Range(task'[p].list)) = Len(task'[p].list)]_vars

\* a PeriodicCheck has stopped an idle codespace and left alone another one
\* that has been idle as long but is not Available
C26_Witness ==
  \E p \in Tasks :
    /\ Completed(p) /\ task[p].kind = "check" /\ StoppedWith(p, TRUE) # {}
    /\ \E id \in DOMAIN remote \ AutoStopTargets(p) :
         /\ remote[id] = "Shutdown" /\ ledger[id] # 0
         /\ now - ledger[id] > inactiveThreshold(task[p].cfg)
         /\ ~IsExcluded(repository[id], task[p].cfg.excludedRepos)

\* ------------------------------------------------------------- a failing store
\* the codespaces whose ledger operation e failed in the pass of p
FailedFor(p, e) == { Log(p)[i].id : i \in { j \in Events(p, e) : ~Log(p)[j].ok } }

\* the step appends to the log of p a failed ledger operation e
JustFailed(p, e) ==
  /\ Len(task'[p].log) = Len(task[p].log) + 1
  /\ task'[p].log[Len(task'[p].log)].ev = e
  /\ ~task'[p].log[Len(task'[p].log)].ok

\* C27: a failing ledger operation never fails the pass. A failed read gives
\* the current time, so the codespace is not stopped as idle; a failed write
\* or removal changes nothing, and the pass goes on with its next step: the
\* settings after a write, the next element (or the end) after a removal.
C27_TrackerFailuresIgnored ==
  /\ [](\A p \in Tasks :
          /\ task[p].pc # "uncaught"
          /\ FailedFor(p, "read") \cap StopTargets(p, "IdleTimeout") = {}
          /\ (Completed(p) /\ FailedFor(p, "record") # {}) =>
               \/ task[p].cfg.githubToken = "" \/ ~task[p].cfg.autoStopEnabled
               \/ Events(p, "list") # {})
  /\ [][\A p \in Tasks :
          /\ JustFailed(p, "record") => (ledger' = ledger /\ task'[p].pc = "max_settings")
          /\ (JustFailed(p, "read") /\ task'[p].pc = "max_read") =>
               task'[p].acc[Len(task'[p].acc)].lastAccess = now
          /\ (JustFailed(p, "forget") /\ Automatic(p)) =>
               /\ ledger' = ledger
               /\ LET n == IF task[p].kind = "check" THEN Len(task[p].list)
                          ELSE Len(task[p].acc)
                  IN IF task[p].idx < n
                     THEN /\ task'[p].idx = task[p].idx + 1
                          /\ task'[p].pc \in {"check_read", "max_stop"}
                     ELSE task'[p].pc = "done"]_vars

\* a PeriodicCheck has stopped one codespace, failed to remove its entry,
\* gone on to the next one, failed to read its entry, which is 35 minutes
\* old, and left it running
C27_Witness ==
  \E p \in Tasks :
    /\ Completed(p) /\ task[p].kind = "check"
    /\ \E i \in Events(p, "forget"), j \in Events(p, "read") :
         /\ i < j /\ ~Log(p)[i].ok /\ ~Log(p)[j].ok
         /\ Log(p)[i].id \in StoppedWith(p, TRUE) /\ ledger[Log(p)[i].id] # 0
         /\ Log(p)[j].id \notin AutoStopTargets(p)
         /\ ledger[Log(p)[j].id] # 0
         /\ now - ledger[Log(p)[j].id] > inactiveThreshold(task[p].cfg)
         /\ remote[Log(p)[j].id] = "Available"

\* ------------------------------------------------------------- ties
\* the order of the codespace names
IdRank == ("a" :> 1) @@ ("b" :> 2) @@ ("c" :> 3)

\* x comes before y by last access, and by name among equal last accesses
OlderOrLesser(x, y) ==
  \/ LastAccess(x) < LastAccess(y)
  \/ LastAccess(x) = LastAccess(y) /\ IdRank[x] < IdRank[y]

\* C28: the max-count pass orders codespaces with equal lastAccess by name:
\* whatever the order of the fetched list, every codespace it selects comes
\* before every codespace of the list it leaves running.
C28_TiesByIdentifier ==
  \A p \in Tasks :
    JustSelected(p) =>
      \A x \in Selected(p), y \in Range(task[p].list) \ Selected(p) :
        OlderOrLesser(x, y)

\* ------------------------------------------------------------- the decision as a function
\* what the reads of the max-count pass return when all of them happen at
\* the time dateNow
ReadsAt(list, store, dateNow) ==
  [i \in DOMAIN list |->
     [name |-> list[i], lastAccess |-> getCodespaceLastAccess(store, list[i], dateNow)]]

\* C29: the selection of the max-count pass is a function of the fetched
\* list, the settings, the ledger and the current time: at the step that
\* takes the decision it is what the sort and the slice give for the entries
\* of the ledger, with the current time for every codespace that has none.
C29_DecisionIsAFunction ==
  [][\A p \in Tasks :
       (task[p].pc = "max_read" /\ task'[p].pc = "max_stop") =>
         Names(task'[p].acc) =
           Names(codespacesToStop(ReadsAt(task[p].list, ledger, now), task[p].cfg))]_vars

\* ------------------------------------------------------------- handleTabActivity
\* the step dispatches a tab activation to task p
TabStarts(p) ==
  /\ ~Busy(p) /\ task'[p].kind = "tab" /\ task'[p].pc = "max_settings"

\* C30: an ActivityEvent first writes the current time to the ledger entry
\* of its codespace, whatever the settings are, and only then reads the
\* settings, fetches the list and runs the max-count pass: it never takes a
\* step of the idle pass, stops nothing for idleness, and stops nothing
\* unless the fetched list, which holds the Available codespaces that are
\* not excluded, is longer than maxCodespaces.
C30_ActivityRecordsThenEnforces ==
  /\ [][\A p \in Tasks :
          TabStarts(p) =>
            /\ ledger'[task'[p].arg] = now
            /\ task'[p].log = <<Ev("record", task'[p].arg, "none", TRUE, 0)>>
            /\ task'[p].list = <<>>]_vars
  /\ [][\A p \in Tasks :
          (/\ task[p].pc = "max_list"
           /\ task'[p].log = Append(task[p].log, Ev("list", "none", "none", TRUE, 200))) =>
            Range(task'[p].list) =
              { id \in AvailableNow :
                  ~IsExcluded(repository[id], task[p].cfg.excludedRepos) }]_vars
  /\ [](\A p \in Tasks :
          task[p].kind = "tab" =>
            /\ task[p].pc \in {"max_settings", "max_list", "max_read", "max_stop",
                                "max_forget", "done"}
            /\ Events(p, "record") = {1}
            /\ StopTargets(p, "IdleTimeout") = {}
            /\ Events(p, "stop") # {} => Len(task[p].list) > task[p].cfg.maxCodespaces)

\* a tab activation with automatic stopping switched off and no token: the
\* entry is written, nothing else happens, although the other codespace has
\* been idle for 35 minutes and maxCodespaces is 1
C30_Witness ==
  \E p \in Tasks :
    /\ Completed(p) /\ task[p].kind = "tab"
    /\ settings.githubToken = "" /\ ~settings.autoStopEnabled
    /\ settings.maxCodespaces = 1 /\ settings.autoStopMinutes = 30
    /\ now > StartMs /\ ledger[task[p].arg] = now
    /\ Len(Log(p)) = 1
    /\ \E id \in DOMAIN remote \ {task[p].arg} :
         remote[id] = "Available" /\ ledger[id] = StartMs
    /\ remote[task[p].arg] = "Available"

\* ------------------------------------------------------------- sleeps of a run
\* C36: every sleep of a run of retryWithBackoff is followed by another
\* invocation of the operation: a run sleeps at most maxAttempts - 1 times,
\* and a run that has thrown has slept fewer times than it has invoked the
\* operation.
C36_NoSleepBeforeThrow ==
  call.maxAttempts > 0 =>
    /\ Len(call.sleeps) <= call.maxAttempts - 1
    /\ call.pc = "thrown" => Len(call.sleeps) < call.calls

\* ------------------------------------------------------------- importSettings
\* the stored settings without the token
WithoutToken(s) == [f \in DOMAIN s \ {"githubToken"} |-> s[f]]

AtSettings(p) == task[p].pc \in {"check_settings", "max_settings", "manual_settings"}

\* what the element of the list the idle pass of p is at reads as
ReadNow(p) ==
  LET id == task[p].list[task[p].idx]
  IN IF ledger[id] # 0 THEN ledger[id] ELSE now

\* C34: no step of a listener changes the stored settings. An invocation
\* reads them once, at its getSettings step, and the copy it holds stays
\* as read until it returns, whatever is saved meanwhile: the idle test
\* uses the threshold of the copy, the max-count pass the maxCodespaces and
\* the excludedRepos of the copy.
C34_SettingsSnapshot ==
  /\ [][task' # task => settings' = settings]_vars
  /\ [][\A p \in Tasks :
          /\ (AtSettings(p) /\ task'[p] # task[p]) => task'[p].cfg = settings
          /\ (Busy(p) /\ ~AtSettings(p)) => task'[p].cfg = task[p].cfg
          /\ (task[p].pc = "check_read" /\ task'[p] # task[p]) =>
               (task'[p].pc = "check_stop" <=>
                  task[p].nowAt - ReadNow(p) >
                    task[p].cfg.autoStopMinutes * MsPerMinute)
          /\ (/\ task[p].pc = "max_list"
              /\ task'[p].log = Append(task[p].log, Ev("list", "none", "none", TRUE, 200))) =>
               /\ task'[p].pc = "max_read" <=>
                    Len(task'[p].list) > task[p].cfg.maxCodespaces
               /\ \A i \in DOMAIN task'[p].list :
                    ~IsExcluded(repository[task'[p].list[i]], task[p].cfg.excludedRepos)
          /\ (task[p].pc = "max_read" /\ task'[p].pc = "max_stop") =>
               Len(task'[p].acc) = Len(task[p].list) - task[p].cfg.maxCodespaces]_vars

\* a PeriodicCheck is about to stop an idle codespace although the settings
\* saved since it began have no token, switch automatic stopping off and
\* exclude the codespace
C34_Witness ==
  \E p \in Tasks :
    /\ task[p].pc = "check_stop" /\ task[p].idx = 2
    /\ task[p].cfg.githubToken = "tok" /\ task[p].cfg.autoStopEnabled
    /\ task[p].cfg.excludedRepos = <<>> /\ task[p].cfg.autoStopMinutes = 30
    /\ settings.githubToken = "" /\ ~settings.autoStopEnabled
    /\ settings.excludedRepos = << <<"x">> >> /\ settings.autoStopMinutes = 0

\* ------------------------------------------------------------- one stop at a time
\* the stop call logged at i in the pass of p has been followed by its
\* notification and by the removal of its entry
StopCompleted(p, i) ==
  Log(p)[i].ok =>
    /\ i + 2 \in DOMAIN Log(p)
    /\ Log(p)[i + 1].ev = "notify" /\ Log(p)[i + 1].id = Log(p)[i].id
    /\ Log(p)[i + 2].ev = "forget" /\ Log(p)[i + 2].id = Log(p)[i].id

\* the step ends a stop call of the pass of p
StopEnds(p) ==
  /\ Len(task'[p].log) > Len(task[p].log)
  /\ task'[p].log[Len(task[p].log) + 1].ev = "stop"

\* C31: the stop calls of a PeriodicCheck or ActivityEvent pass are made
\* one after the other: a stop call, with all its attempts, ends only when
\* every earlier stop call of the pass has ended and, if it succeeded, its
\* notification and the removal of its ledger entry are done; the only
\* stop call not yet followed by its removal is the last one, and the pass
\* is then at that removal.
C31_StopsSequential ==
  /\ [](\A p \in Tasks : Automatic(p) =>
          \A i \in Events(p, "stop") :
            \/ StopCompleted(p, i)
            \/ /\ i = Len(Log(p)) - 1
               /\ Log(p)[i + 1].ev = "notify" /\ Log(p)[i + 1].id = Log(p)[i].id
               /\ task[p].pc \in {"check_forget", "max_forget"})
  /\ [][\A p \in Tasks :
          (Automatic(p) /\ Busy(p) /\ StopEnds(p)) =>
            /\ task[p].pc \in {"check_stop", "max_stop"}
            /\ \A i \in Events(p, "stop") : StopCompleted(p, i)]_vars

\* an ActivityEvent with maxCodespaces = 1 and three codespaces has
\* stopped two of them, one after the other
C31_Witness ==
  \E p \in Tasks :
    /\ Completed(p) /\ task[p].kind = "tab"
    /\ \E i \in Events(p, "stop") :
         /\ Events(p, "stop") = {i, i + 3}
         /\ Log(p)[i].ok /\ Log(p)[i + 3].ok
         /\ Log(p)[i].id # Log(p)[i + 3].id
         /\ Len(Log(p)) = i + 5

\* ------------------------------------------------------------- order of the stop calls
\* C32: the stop calls of a pass go out oldest first, whatever the order of
\* the fetched list: the codespace a PeriodicCheck is about to stop was not
\* accessed later than any codespace further down its list that it will
\* also find idle, and the codespace an ActivityEvent is about to stop not
\* later than any it stops after it.
C32_StopsOldestFirst ==
  \A p \in Tasks :
    /\ task[p].pc = "check_stop" =>
         \A j \in (task[p].idx + 1)..Len(task[p].list) :
           (task[p].nowAt - LastAccess(task[p].list[j]) >
              task[p].cfg.autoStopMinutes * MsPerMinute) =>
             LastAccess(task[p].list[task[p].idx]) <= LastAccess(task[p].list[j])
    /\ task[p].pc = "max_stop" =>
         \A j \in (task[p].idx + 1)..Len(task[p].acc) :
           task[p].acc[task[p].idx].lastAccess <= task[p].acc[j].lastAccess

\* ------------------------------------------------------------- activity during a check
\* C33: no activity is lost. When a PeriodicCheck makes its stop call for a
\* codespace it has read as idle, the ledger entry of that codespace is
\* still an idle one: an entry an ActivityEvent has written since the read
\* keeps the check from stopping the codespace.
C33_NoLostActivity ==
  [][\A p \in Tasks :
       (task[p].kind = "check" /\ task[p].pc = "check_stop" /\ task'[p] # task[p]) =>
         LET id == task[p].list[task[p].idx]
         IN ledger[id] # 0 =>
              task[p].nowAt - ledger[id] > task[p].cfg.autoStopMinutes * MsPerMinute]_vars

====
